---------------------------- MODULE Spec2Model ----------------------------
(***************************************************************************)
(* A model of MC10py/LoadMC10.py: the annotation de-duplication pass of    *)
(* load_mc10, the event segmenter _segment_data, the timestamp aligner     *)
(* _align_timestamps and the subject loop / save path of load_mc10.        *)
(*                                                                         *)
(* A sensor table is represented by its time column (column 0): a strictly *)
(* ascending sequence of integer millisecond timestamps with at least two  *)
(* rows.  Rows are identified by their timestamps; the channel columns are *)
(* carried along by the code row by row and are not represented.  Python   *)
(* indices are 0-based and kept 0-based here; row i of a table t is        *)
(* t[i + 1].                                                               *)
(***************************************************************************)
EXTENDS Integers, Sequences, FiniteSets, TLC

VARIABLES
    pc,          \* position of the operation being run
    raw,         \* column 2 of annotations.csv as written in the file
    events,      \* load_mc10 local 'events' / _segment_data argument 'events'
    start,       \* _segment_data argument 'start' / _align_timestamps local 'start'
    stop,        \* _segment_data argument 'stop' / _align_timestamps local 'stop'
    types,       \* Python types of the arguments start, stop and events
    pre_time,    \* 'pre_time', here in milliseconds (the code takes seconds)
    data,        \* _segment_data argument 'data' / _align_timestamps 'subj_data'
    todo,        \* (location, kind) pairs the loops of _segment_data still visit
    nread,       \* number of sensor tables _segment_data has read so far
    split_data,  \* _segment_data local 'split_data'
    ret_data,    \* _align_timestamps local 'ret_data'
    outcome,     \* what the call handed to its caller: a value or an exception
    ld           \* the frame of load_mc10 (SpecLoad)

vars == <<pc, raw, events, start, stop, types, pre_time, data, todo, nread,
          split_data, ret_data, outcome, ld>>

----------------------------------------------------------------------------
(* Small helpers *)

Abs(x) == IF x < 0 THEN -x ELSE x

Range(s) == {s[i] : i \in 1..Len(s)}

SeqsUpTo(S, n) == UNION {[1..m -> S] : m \in 0..n}

EmptyDict == [x \in {} |-> <<>>]

\* d[k] = v
Put(d, k, v) == [x \in (DOMAIN d) \cup {k} |-> IF x = k THEN v ELSE d[x]]

\* What a call hands to its caller: nothing yet, a returned value, an exception.
None == [kind |-> "none", exc |-> "", value |-> EmptyDict]
Return(v) == [kind |-> "return", exc |-> "", value |-> v]
Raise(e) == [kind |-> "raise", exc |-> e, value |-> EmptyDict]

----------------------------------------------------------------------------
(* Annotation de-duplication, load_mc10 lines 106-115 *)

\* Width of the fixed-width unicode dtype the annotation columns are read as.
StrWidth == 35

\* Storing a Python str into a '<U35' array element keeps the first 35 characters.
StoreU35(s) == IF Len(s) > StrWidth THEN SubSeq(s, 1, StrWidth) ELSE s

\* loadtxt(..., dtype='U35', usecols=(2, ...)): the event column as stored.
Loadtxt(column) == [k \in 1..Len(column) |-> StoreU35(column[k])]

\* unique(events, return_counts=True): number of occurrences of each distinct name.
\* (numpy returns the names sorted and 'inds' as positions in that order; the
\* name itself is used as the index here.)
Counts(evs) == [u \in Range(evs) |-> Cardinality({k \in 1..Len(evs) : evs[k] = u})]

\* events[k] += f' {ecnts[inds[k]]}'
Renamed(name, n) == StoreU35(name \o " " \o ToString(n))

\* The loop of lines 112-115 from position k (1-based here) on.  cnts and inds
\* are fixed by unique() before any element is renamed; events[k] still holds
\* the loaded name when the loop reaches k, so inds[k] is read from it.
RECURSIVE DedupLoop(_, _, _, _)
DedupLoop(evs, cnts, ecnts, k) ==
    IF k > Len(evs) THEN evs
    ELSE LET u == evs[k] IN
         IF cnts[u] > 1
         THEN DedupLoop([evs EXCEPT ![k] = Renamed(evs[k], ecnts[u])],
                        cnts, [ecnts EXCEPT ![u] = @ + 1], k + 1)
         ELSE DedupLoop(evs, cnts, ecnts, k + 1)

\* lines 109-115
Dedup(evs) ==
    LET cnts == Counts(evs) IN
    IF \E u \in DOMAIN cnts : cnts[u] > 1          \* any(cnts > 1)
    THEN DedupLoop(evs, cnts, [u \in DOMAIN cnts |-> 1], 1)
    ELSE evs

----------------------------------------------------------------------------
(* _segment_data, lines 162-225 *)

\* numpy shape of an argument: 1-D arrays have shape (n,), the 2-D ones (1, n).
Shape(type, val) == IF type = "ndarray2d" THEN <<1, Len(val)>> ELSE <<Len(val)>>

\* Lines 190-205: the name of the exception raised, or "ok".
\* "list" stands for every accepted non-array type (list, float, int): it passes
\* isinstance and has no astype / shape attribute.
SegCheck(ty, st, sp, evs) ==
    IF ty.start \notin {"ndarray", "ndarray2d", "list"} THEN "InputError"
    ELSE IF ty.stop \notin {"ndarray", "ndarray2d", "list"} THEN "InputError"
    ELSE IF ty.start = "list" THEN "AttributeError"      \* start.astype
    ELSE IF ty.stop = "list" THEN "AttributeError"       \* stop.astype
    ELSE IF Len(Shape(ty.start, st)) # 1 THEN "InputError"
    ELSE IF Len(Shape(ty.stop, sp)) # 1 THEN "InputError"
    ELSE IF Shape(ty.start, st) # Shape(ty.stop, sp) THEN "InputError"
    ELSE IF ty.events # "ndarray" THEN "AttributeError"  \* events.shape
    ELSE IF Shape(ty.start, st) # Shape(ty.events, evs) THEN "InputError"
    ELSE "ok"

\* argmin(abs(times - t), axis=0): 0-based index of the first row at least distance
ArgminAbs(table, t) ==
    CHOOSE i \in 0..(Len(table) - 1) :
        /\ \A j \in 0..(Len(table) - 1) : Abs(table[i + 1] - t) <= Abs(table[j + 1] - t)
        /\ \A j \in 0..(i - 1) : Abs(table[j + 1] - t) > Abs(table[i + 1] - t)

\* Python round() of the non-negative quotient num / den: ties go to the even integer.
RoundHalfEven(num, den) ==
    LET q == num \div den
        r == num % den
    IN  IF 2 * r < den THEN q
        ELSE IF 2 * r > den THEN q + 1
        ELSE IF q % 2 = 0 THEN q ELSE q + 1

\* Lines 216-217.  dt = mean(diff(t)) / 1000 is (t[-1] - t[0]) / (n - 1) ms, and
\* pre_time is held in ms, so pre_time / dt = pre_time * (n - 1) / (t[-1] - t[0]).
Npt(table, pre) == RoundHalfEven(pre * (Len(table) - 1), table[Len(table)] - table[1])

\* Python slice resolution of one bound against a length n.
SliceBound(i, n) == IF i < 0 THEN (IF i + n < 0 THEN 0 ELSE i + n)
                    ELSE (IF i > n THEN n ELSE i)

\* table[lo:hi, :]
PySlice(table, lo, hi) ==
    SubSeq(table, SliceBound(lo, Len(table)) + 1, SliceBound(hi, Len(table)))

\* Line 223 for one annotation.
Segment(table, st, sp, pre) ==
    PySlice(table, ArgminAbs(table, st) - Npt(table, pre), ArgminAbs(table, sp))

\* Lines 222-223: the loop over zip(start_inds, stop_inds, events) from i on.
RECURSIVE SegmentLoop(_, _, _, _, _, _, _)
SegmentLoop(d, table, st, sp, evs, pre, i) ==
    IF i > Len(st) \/ i > Len(sp) \/ i > Len(evs) THEN d
    ELSE SegmentLoop(Put(d, evs[i], Segment(table, st[i], sp[i], pre)),
                     table, st, sp, evs, pre, i + 1)

\* Lines 212-223 for one sensor table.
SegmentTable(table, st, sp, evs, pre) == SegmentLoop(EmptyDict, table, st, sp, evs, pre, 1)

\* _segment_data as a whole: what the call hands back.
SegmentData(ty, d, st, sp, evs, pre) ==
    IF SegCheck(ty, st, sp, evs) # "ok" THEN Raise(SegCheck(ty, st, sp, evs))
    ELSE Return([loc \in DOMAIN d |->
                    [typ \in DOMAIN d[loc] |-> SegmentTable(d[loc][typ], st, sp, evs, pre)]])

----------------------------------------------------------------------------
(* _align_timestamps, lines 228-271 *)

\* Line 236: 1000 / [31.25, 62.5, 125, 250], the valid sampling intervals in ms.
sampling_rates == <<32, 16, 8, 4>>

\* Lines 243-249: tb stays 0 for a location without 'accel'; argwhere(tb) keeps
\* the positions where tb is non-zero.
AlignLocs(sd) == {loc \in DOMAIN sd : "accel" \in DOMAIN sd[loc] /\ sd[loc]["accel"][1] # 0}

SetMax(S) == CHOOSE x \in S : \A y \in S : y <= x
SetMin(S) == CHOOSE x \in S : \A y \in S : x <= y

\* Lines 253-254.
AlignStart(sd) == SetMax({sd[loc]["accel"][1] : loc \in AlignLocs(sd)})
AlignStop(sd) == SetMin({sd[loc]["accel"][Len(sd[loc]["accel"])] : loc \in AlignLocs(sd)})

\* Line 258: sampling_rates[argmin(abs(mean(diff(t)) - sampling_rates))].  The mean
\* of the differences is (t[-1] - t[0]) / (n - 1); distances are compared scaled
\* by n - 1.  argmin returns the first position of the minimum.
Dist(table, r) == Abs((table[Len(table)] - table[1]) - r * (Len(table) - 1))

\* a tie resolved towards the last catalog entry instead of the first
SnapIndexTieLast(table) ==
    CHOOSE i \in 1..Len(sampling_rates) :
        /\ \A j \in 1..Len(sampling_rates) :
              Dist(table, sampling_rates[i]) <= Dist(table, sampling_rates[j])
        /\ \A j \in (i + 1)..Len(sampling_rates) :
              Dist(table, sampling_rates[j]) > Dist(table, sampling_rates[i])

SnapIndex(table) ==
    CHOOSE i \in 1..Len(sampling_rates) :
        /\ \A j \in 1..Len(sampling_rates) :
              Dist(table, sampling_rates[i]) <= Dist(table, sampling_rates[j])
        /\ \A j \in 1..(i - 1) :
              Dist(table, sampling_rates[j]) > Dist(table, sampling_rates[i])

Snap(table) == sampling_rates[SnapIndex(table)]

\* arange(a, b, step) for integers: a, a + step, ... strictly below b.
Arange(a, b, step) ==
    IF b <= a THEN <<>>
    ELSE [i \in 1..(((b - a) + step - 1) \div step) |-> a + (i - 1) * step]

\* Lines 267-268: interp1d(x, y, kind='cubic') needs at least 4 points, and
\* evaluating it outside [x[0], x[-1]] raises ValueError (bounds_error).
InterpFails(table, time) ==
    \/ Len(table) < 4
    \/ \E i \in 1..Len(time) : time[i] < table[1] \/ time[i] > table[Len(table)]

\* Line 259.
AlignTime(sd, loc, a, b) == Arange(a, b, Snap(sd[loc]["accel"]))

\* Lines 262-269 for one location: the aligned tables of its kinds.
AlignLoc(sd, loc, a, b) == [sens \in DOMAIN sd[loc] |-> AlignTime(sd, loc, a, b)]

AlignLocFails(sd, loc, a, b) ==
    \E sens \in DOMAIN sd[loc] : InterpFails(sd[loc][sens], AlignTime(sd, loc, a, b))

\* _align_timestamps as a whole: what the call hands back.
AlignTimestamps(sd) ==
    IF AlignLocs(sd) = {} THEN Raise("ValueError")          \* max() of an empty list
    ELSE IF \E loc \in AlignLocs(sd) : AlignLocFails(sd, loc, AlignStart(sd), AlignStop(sd))
         THEN Raise("ValueError")
    ELSE Return([loc \in AlignLocs(sd) |-> AlignLoc(sd, loc, AlignStart(sd), AlignStop(sd))])

----------------------------------------------------------------------------
(* Bounds and input domains *)

MaxEvents == 3      \* rows of an annotation log in SpecDedup
MaxAnn == 2         \* annotations of a _segment_data call in SpecSegment

Name35 == "Timed Up and Go - Second Trial Fast"

RawNames == {"walk", "run", "walk 1", Name35}

\* first, first + step, ... (n rows); every second row is displaced by jit
Table(first, step, n, jit) ==
    [i \in 1..n |-> first + (i - 1) * step + (IF i % 2 = 0 THEN jit ELSE 0)]

\* the frame of load_mc10 when load_mc10 is not what runs
NoLoad == [calls |-> <<>>]

----------------------------------------------------------------------------
(* SpecDedup: the annotation pass of load_mc10 on one annotations.csv *)

DedupInit ==
    /\ pc = "read"
    /\ raw \in SeqsUpTo(RawNames, MaxEvents)
    /\ events = <<>>
    /\ start = <<>> /\ stop = <<>> /\ pre_time = 0
    /\ types = [start |-> "ndarray", stop |-> "ndarray", events |-> "ndarray"]
    /\ data = EmptyDict /\ todo = {} /\ nread = 0
    /\ split_data = EmptyDict /\ ret_data = EmptyDict
    /\ outcome = None /\ ld = NoLoad

\* line 106
ReadAnnotations ==
    /\ pc = "read"
    /\ events' = Loadtxt(raw)
    /\ pc' = "loaded"
    /\ UNCHANGED <<raw, start, stop, types, pre_time, data, todo, nread,
                   split_data, ret_data, outcome, ld>>

\* lines 109-115
Deduplicate ==
    /\ pc = "loaded"
    /\ events' = Dedup(events)
    /\ pc' = "deduped"
    /\ UNCHANGED <<raw, start, stop, types, pre_time, data, todo, nread,
                   split_data, ret_data, outcome, ld>>

DedupNext == ReadAnnotations \/ Deduplicate

SpecDedup == DedupInit /\ [][DedupNext]_vars

----------------------------------------------------------------------------
(* C1, C8: the names the de-duplication pass produces *)

\* number of positions up to k holding the name at k (its 1-based occurrence)
Occurrence(names, k) == Cardinality({j \in 1..k : names[j] = names[k]})

\* C1: after the de-duplication pass every name that occurs once among the loaded
\* names is unchanged, and the k-th occurrence of a repeated name reads
\* '<name> k'; positions are preserved.
C1_DedupNaming ==
    pc = "deduped" =>
        /\ Len(events) = Len(raw)
        /\ \A k \in 1..Len(raw) :
              LET names == Loadtxt(raw) IN
              events[k] = IF Counts(names)[names[k]] = 1 THEN names[k]
                          ELSE names[k] \o " " \o ToString(Occurrence(names, k))

\* C8: after the de-duplication pass the names are pairwise distinct.
C8_UniqueKeys ==
    pc = "deduped" =>
        \A i, j \in 1..Len(events) : i # j => events[i] # events[j]

----------------------------------------------------------------------------
(* SpecSegment: one call of _segment_data *)

SegRows == 6        \* rows of the accel table handed to _segment_data

Locs == {"wrist", "ankle"}

T10 == Table(0, 10, SegRows, 0)
T20 == Table(0, 20, (SegRows + 1) \div 2, 0)

StartTimes == {1, 21}
StopTimes == {39}
PreTimes == {0, 20, 25}

SegNames == {"walk", "run", Name35}

SegTypes == [start : {"ndarray", "ndarray2d", "list", "other"},
             stop : {"ndarray", "ndarray2d", "list", "other"},
             events : {"ndarray", "list"}]

\* the wrist carries the accel table T10 and possibly a gyro table T20, the
\* ankle an accel table T20
LocTables(loc, gyro) ==
    IF loc = "wrist"
    THEN [typ \in (IF gyro THEN {"accel", "gyro"} ELSE {"accel"}) |->
             IF typ = "accel" THEN T10 ELSE T20]
    ELSE [typ \in {"accel"} |-> T20]

SegDatas ==
    {[loc \in L |-> LocTables(loc, g)] :
        L \in {{"wrist"}, {"wrist", "ankle"}}, g \in BOOLEAN}

\* every (location, kind) pair of a data dictionary
Pairs(d) == {<<loc, typ>> \in (DOMAIN d) \X {"accel", "gyro"} : typ \in DOMAIN d[loc]}

SegInit ==
    /\ pc = "call"
    /\ raw \in SeqsUpTo(SegNames, MaxAnn)
    /\ events = Dedup(Loadtxt(raw))       \* the names load_mc10 hands over
    /\ start \in SeqsUpTo(StartTimes, MaxAnn)
    /\ stop \in SeqsUpTo(StopTimes, MaxAnn)
    /\ types \in SegTypes
    /\ pre_time \in PreTimes
    /\ data \in SegDatas
    /\ todo = {} /\ nread = 0
    /\ split_data = EmptyDict /\ ret_data = EmptyDict
    /\ outcome = None /\ ld = NoLoad

\* lines 189-205: an argument is rejected
SegReject ==
    /\ pc = "call"
    /\ SegCheck(types, start, stop, events) # "ok"
    /\ outcome' = Raise(SegCheck(types, start, stop, events))
    /\ pc' = "done"
    /\ UNCHANGED <<raw, events, start, stop, types, pre_time, data, todo, nread,
                   split_data, ret_data, ld>>

\* lines 189-207: the arguments pass; the loops of line 209 and 211 begin
SegEnter ==
    /\ pc = "call"
    /\ SegCheck(types, start, stop, events) = "ok"
    /\ split_data' = EmptyDict
    /\ todo' = Pairs(data)
    /\ pc' = "loop"
    /\ UNCHANGED <<raw, events, start, stop, types, pre_time, data, nread,
                   ret_data, outcome, ld>>

\* lines 210-223 for one sensor table (in the order of the dictionaries' keys)
SegTable ==
    /\ pc = "loop"
    /\ \E p \in todo :
          LET loc == p[1]
              typ == p[2]
              sofar == IF loc \in DOMAIN split_data THEN split_data[loc] ELSE EmptyDict
          IN /\ split_data' = Put(split_data, loc,
                     Put(sofar, typ, SegmentTable(data[loc][typ], start, stop, events, pre_time)))
             /\ todo' = todo \ {p}
    /\ nread' = nread + 1
    /\ UNCHANGED <<pc, raw, events, start, stop, types, pre_time, data,
                   ret_data, outcome, ld>>

\* line 225
SegReturn ==
    /\ pc = "loop"
    /\ todo = {}
    /\ outcome' = Return(split_data)
    /\ pc' = "done"
    /\ UNCHANGED <<raw, events, start, stop, types, pre_time, data, todo, nread,
                   split_data, ret_data, ld>>

SegNext == SegReject \/ SegEnter \/ SegTable \/ SegReturn

SpecSegment == SegInit /\ [][SegNext]_vars

\* 0-based indices of the rows of a table nearest to t
Nearest(table, t) ==
    {i \in 0..(Len(table) - 1) :
        \A j \in 0..(Len(table) - 1) : Abs(table[i + 1] - t) <= Abs(table[j + 1] - t)}

\* rows lo, ..., hi - 1 of a table (0-based, 0 <= lo)
Rows(table, lo, hi) == SubSeq(table, lo + 1, hi)

\* C2: with pre_time = 0 the segment stored under the event name of every
\* annotation i is rows [s, e) of the table, s the index of the row nearest
\* start[i] and e the index of the row nearest stop[i].
C2_SegmentBounds ==
    (pc = "done" /\ outcome.kind = "return" /\ pre_time = 0) =>
        \A p \in Pairs(data) : \A i \in 1..Len(events) :
            LET table == data[p[1]][p[2]] IN
            \E s \in Nearest(table, start[i]) : \E e \in Nearest(table, stop[i]) :
                outcome.value[p[1]][p[2]][events[i]] = Rows(table, s, e)

\* the annotations whose key no later annotation writes again
Kept(evs) == {i \in 1..Len(evs) : \A j \in (i + 1)..Len(evs) : evs[j] # evs[i]}

\* C3: the emitted segment is rows [max(0, start_index - pad_samples), stop_index):
\* a negative padded start is clamped to row 0.
C3_PadClamped ==
    (pc = "done" /\ outcome.kind = "return") =>
        \A p \in Pairs(data) : \A i \in Kept(events) :
            LET table == data[p[1]][p[2]]
                lo == ArgminAbs(table, start[i]) - Npt(table, pre_time)
            IN  outcome.value[p[1]][p[2]][events[i]] =
                    Rows(table, IF lo < 0 THEN 0 ELSE lo, ArgminAbs(table, stop[i]))

\* the case of C4: the three arguments differ in length, or start/stop is not 1-D
Malformed ==
    \/ Len(start) # Len(stop)
    \/ Len(start) # Len(events)
    \/ types.start = "ndarray2d"
    \/ types.stop = "ndarray2d"

\* C4: a call with malformed arguments ends in InputError, before any sensor
\* table is read and with nothing handed back.
C4_EagerReject ==
    (Malformed /\ pc # "call") =>
        /\ pc = "done"
        /\ outcome = Raise("InputError")
        /\ nread = 0

----------------------------------------------------------------------------
(* SpecAlign: one call of _align_timestamps *)

MaxRows == 5        \* rows of an accel table handed to _align_timestamps

Firsts == {0, 8}
Steps == {6, 8, 12, 24}
Jitters == {-1, 0, 1}

\* what one sensor location may hold: an accel table alone, an accel table with a
\* gyro table over the same rows or starting one step later, or a gyro table alone
LocContents ==
    {[typ \in {"accel"} |-> Table(f, st, n, j)] :
        f \in Firsts, st \in Steps, n \in 3..MaxRows, j \in Jitters}
    \cup
    {[typ \in {"accel", "gyro"} |->
        IF typ = "accel" THEN Table(f, st, n, j) ELSE Table(f + late * st, st, n, j)] :
        f \in Firsts, st \in Steps, n \in 3..MaxRows, j \in Jitters, late \in {0, 1}}
    \cup
    {[typ \in {"gyro"} |-> Table(8, 8, MaxRows, 0)]}

SubjDatas == UNION {[L -> LocContents] : L \in SUBSET Locs}

AlignInit ==
    /\ pc = "call"
    /\ data \in SubjDatas
    /\ raw = <<>> /\ events = <<>>
    /\ start = 0 /\ stop = 0 /\ pre_time = 0
    /\ types = [start |-> "ndarray", stop |-> "ndarray", events |-> "ndarray"]
    /\ todo = {} /\ nread = 0
    /\ split_data = EmptyDict /\ ret_data = EmptyDict
    /\ outcome = None /\ ld = NoLoad

\* lines 236-254 when no location is kept: max(tb) of an empty array raises
AlignNoRef ==
    /\ pc = "call"
    /\ AlignLocs(data) = {}
    /\ outcome' = Raise("ValueError")
    /\ pc' = "done"
    /\ UNCHANGED <<raw, events, start, stop, types, pre_time, data, todo, nread,
                   split_data, ret_data, ld>>

\* lines 236-256: the kept locations and the common window
AlignWindow ==
    /\ pc = "call"
    /\ AlignLocs(data) # {}
    /\ todo' = AlignLocs(data)
    /\ start' = AlignStart(data)
    /\ stop' = AlignStop(data)
    /\ ret_data' = EmptyDict
    /\ pc' = "loop"
    /\ UNCHANGED <<raw, events, types, pre_time, data, nread, split_data, outcome, ld>>

\* lines 257-269 for one kept location
AlignOneLoc ==
    /\ pc = "loop"
    /\ \E loc \in todo :
          /\ ~AlignLocFails(data, loc, start, stop)
          /\ ret_data' = Put(ret_data, loc, AlignLoc(data, loc, start, stop))
          /\ todo' = todo \ {loc}
    /\ UNCHANGED <<pc, raw, events, start, stop, types, pre_time, data, nread,
                   split_data, outcome, ld>>

\* lines 267-268 raise for a kind of the location
AlignInterpError ==
    /\ pc = "loop"
    /\ \E loc \in todo : AlignLocFails(data, loc, start, stop)
    /\ outcome' = Raise("ValueError")
    /\ pc' = "done"
    /\ UNCHANGED <<raw, events, start, stop, types, pre_time, data, todo, nread,
                   split_data, ret_data, ld>>

\* line 271
AlignReturn ==
    /\ pc = "loop"
    /\ todo = {}
    /\ outcome' = Return(ret_data)
    /\ pc' = "done"
    /\ UNCHANGED <<raw, events, start, stop, types, pre_time, data, todo, nread,
                   split_data, ret_data, ld>>

AlignNext == AlignNoRef \/ AlignWindow \/ AlignOneLoc \/ AlignInterpError \/ AlignReturn

SpecAlign == AlignInit /\ [][AlignNext]_vars

\* the input locations that have an 'accel' table
AccelLocs(sd) == {loc \in DOMAIN sd : "accel" \in DOMAIN sd[loc]}

First(table) == table[1]
Last(table) == table[Len(table)]

\* C5: every aligned time vector starts at the largest first accel timestamp of
\* the input locations and its last sample t_last satisfies
\* min(lasts) - interval <= t_last < min(lasts).
C5_AlignWindow ==
    (pc = "done" /\ outcome.kind = "return") =>
        \A loc \in DOMAIN outcome.value : \A sens \in DOMAIN outcome.value[loc] :
            LET time == outcome.value[loc][sens]
                firsts == {First(data[l]["accel"]) : l \in AccelLocs(data)}
                lasts == {Last(data[l]["accel"]) : l \in AccelLocs(data)}
                interval == Snap(data[loc]["accel"])
            IN  Len(time) > 0 =>
                    /\ First(time) = SetMax(firsts)
                    /\ SetMin(lasts) - interval <= Last(time)
                    /\ Last(time) < SetMin(lasts)

\* C6: the locations of the aligned output are exactly the input locations that
\* have an 'accel' table.
C6_AccelInclusion ==
    (pc = "done" /\ outcome.kind = "return") =>
        DOMAIN outcome.value = AccelLocs(data)

\* the catalog entries nearest to the mean of the consecutive differences of a
\* table, (t[-1] - t[0]) / (n - 1): r is nearer than q iff
\* |t[-1] - t[0] - r (n - 1)| < |t[-1] - t[0] - q (n - 1)|
NearestEntries(table) ==
    LET span == Last(table) - First(table)
        m == Len(table) - 1
    IN  {r \in Range(sampling_rates) :
            \A q \in Range(sampling_rates) : Abs(span - r * m) <= Abs(span - q * m)}

\* position of an entry in the catalog
CatalogPos(r) == CHOOSE i \in 1..Len(sampling_rates) : sampling_rates[i] = r

\* the nearest entry that comes first in catalog order
ExpectedInterval(table) ==
    CHOOSE r \in NearestEntries(table) :
        \A q \in NearestEntries(table) : CatalogPos(r) <= CatalogPos(q)

\* accel rows within 1 ms of a nominal 8 ms grid (covers a jitter of 0.5 ms)
Nominal8(table) ==
    \A i \in 1..Len(table) : Abs(table[i] - (First(table) + 8 * (i - 1))) <= 1

\* C7: the time vector of every kept location steps by the catalog entry nearest
\* to the mean accel timestamp difference, the first entry in catalog order
\* winning a tie; jittered 8 ms data steps by 8.
C7_RateSnap ==
    (pc = "done" /\ outcome.kind = "return") =>
        \A loc \in DOMAIN outcome.value : \A sens \in DOMAIN outcome.value[loc] :
            LET time == outcome.value[loc][sens]
                accel == data[loc]["accel"]
            IN  \A i \in 1..(Len(time) - 1) :
                    /\ time[i + 1] - time[i] = ExpectedInterval(accel)
                    /\ Nominal8(accel) => time[i + 1] - time[i] = 8

\* C7 witness: a returned time vector of several samples for a location whose
\* mean difference is equally near to two catalog entries, and one for
\* jittered 8 ms data
C7_Witness ==
    /\ pc = "done" /\ outcome.kind = "return"
    /\ \E loc \in DOMAIN outcome.value :
          /\ Cardinality(NearestEntries(data[loc]["accel"])) > 1
          /\ Len(outcome.value[loc]["accel"]) > 1
    /\ \E loc \in DOMAIN outcome.value :
          /\ Nominal8(data[loc]["accel"])
          /\ \E i \in 1..Len(data[loc]["accel"]) :
                data[loc]["accel"][i] # First(data[loc]["accel"]) + 8 * (i - 1)
          /\ Len(outcome.value[loc]["accel"]) > 1

----------------------------------------------------------------------------
(* SpecLoad: one call of load_mc10 on a study directory *)

MaxSubjects == 2    \* subject folders of the study directory

study_dir == "study"
sep == "/"
cwd == "cwd"

\* save_loc: None, 'import', 'local', an existing directory without and with a
\* trailing separator, a path that is no directory, a value that is no str
SaveLocs ==
    {[type |-> "none", val |-> ""], [type |-> "str", val |-> "import"],
     [type |-> "str", val |-> "local"], [type |-> "str", val |-> "out"],
     [type |-> "str", val |-> "out/"], [type |-> "str", val |-> "nowhere"],
     [type |-> "other", val |-> ""]}

IsDir(path) == path \in {"out", "out/"}

\* save_loc.split(sep)[-1] == ''
EndsWithSep(path) == Len(path) > 0 /\ SubSeq(path, Len(path), Len(path)) = sep

Unbound == [bound |-> FALSE, val |-> ""]
Bound(v) == [bound |-> TRUE, val |-> v]

\* the annotations.csv of a subject folder: absent, or its rows
NoLog == [present |-> FALSE, events |-> <<>>, starts |-> <<>>, stops |-> <<>>]
AnnLogs ==
    {NoLog,
     [present |-> TRUE, events |-> <<"walk", "run">>, starts |-> <<11, 21>>, stops |-> <<39, 50>>],
     [present |-> TRUE, events |-> <<"sit", "sit">>, starts |-> <<21, 31>>, stops |-> <<39, 50>>],
     [present |-> TRUE, events |-> <<"rest">>, starts |-> <<31>>, stops |-> <<50>>]}

\* the sensor files of every subject folder: one location with accel.csv
SubjTables == [loc \in {"wrist"} |-> [typ \in {"accel"} |-> Table(10, 10, SegRows, 0)]]

SubjName(j) == "s" \o ToString(j)

\* loadtxt(..., unpack=True) squeezes a one-row file: events, starts, stops are
\* then numpy.str_ scalars, which are none of float, int, list, ndarray
AnnTypes(n) ==
    IF n = 1 THEN [start |-> "other", stop |-> "other", events |-> "other"]
    ELSE [start |-> "ndarray", stop |-> "ndarray", events |-> "ndarray"]

\* the locals events, starts, stops of load_mc10 before line 106 has ever run
NoAnn == [bound |-> FALSE, types |-> AnnTypes(0), events |-> <<>>, starts |-> <<>>, stops |-> <<>>]

LoadInit ==
    /\ pc = "call"
    /\ pre_time \in {0, 20}
    /\ \E n \in 1..MaxSubjects, seg \in BOOLEAN, sy \in BOOLEAN, sv \in BOOLEAN,
          ss \in BOOLEAN, rd \in BOOLEAN, sl \in SaveLocs :
          \E logs \in [1..n -> AnnLogs] :
             ld = [segment |-> seg, sync |-> sy, save |-> sv, save_loc |-> sl,
                   save_subj |-> ss, return_data |-> rd,
                   save_path |-> Unbound, save_paths |-> <<>>,
                   subjs |-> [j \in 1..n |-> [name |-> SubjName(j), log |-> logs[j]]],
                   done |-> 0, ann |-> NoAnn, data |-> EmptyDict,
                   files |-> {}, calls |-> <<>>]
    /\ raw = <<>> /\ events = <<>> /\ start = <<>> /\ stop = <<>>
    /\ types = AnnTypes(0)
    /\ data = EmptyDict /\ todo = {} /\ nread = 0
    /\ split_data = EmptyDict /\ ret_data = EmptyDict
    /\ outcome = None

\* lines 75-87: the save location; Raise(...) for the two failing branches
SavePath(sl) ==
    IF sl.type = "none" \/ (sl.type = "str" /\ sl.val = "import") THEN Return(Bound(study_dir))
    ELSE IF sl.type = "str" /\ sl.val = "local" THEN Return(Bound(cwd))
    ELSE IF sl.type = "str"
         THEN IF IsDir(sl.val)
              THEN IF EndsWithSep(sl.val) THEN Raise("AttributeError")   \* sep.joint
                   ELSE Return(Bound(sl.val))
              ELSE Raise("FileNotFoundError")
    ELSE Return(Unbound)

\* lines 69-97
LoadSetup ==
    /\ pc = "call"
    /\ IF ld.save
       THEN IF SavePath(ld.save_loc).kind = "raise"
            THEN /\ outcome' = SavePath(ld.save_loc)
                 /\ pc' = "done"
                 /\ ld' = IF ld.save_subj THEN [ld EXCEPT !.return_data = FALSE] ELSE ld
            ELSE /\ ld' = [ld EXCEPT !.return_data = IF ld.save_subj THEN FALSE ELSE @,
                                     !.save_path = SavePath(ld.save_loc).value]
                 /\ pc' = "subjects"
                 /\ UNCHANGED outcome
       ELSE /\ ld' = [ld EXCEPT !.save_subj = FALSE, !.return_data = TRUE]
            /\ pc' = "subjects"
            /\ UNCHANGED outcome
    /\ UNCHANGED <<raw, events, start, stop, types, pre_time, data, todo, nread,
                   split_data, ret_data>>

\* lines 104-115 for the folder: the locals events, starts, stops afterwards
AnnAfter(f, folder) ==
    IF folder.log.present /\ f.segment
    THEN [bound |-> TRUE, types |-> AnnTypes(Len(folder.log.events)),
          events |-> Dedup(Loadtxt(folder.log.events)),
          starts |-> folder.log.starts, stops |-> folder.log.stops]
    ELSE f.ann

\* lines 125-126
Synced(f) == IF f.sync THEN AlignTimestamps(SubjTables) ELSE Return(SubjTables)

\* lines 125-131: the value stored in data[sub], or the exception raised
SubjectData(f, ann, pre) ==
    IF Synced(f).kind = "raise" THEN Synced(f)
    ELSE IF ~f.segment THEN Synced(f)
    ELSE IF ~ann.bound THEN Raise("UnboundLocalError")      \* starts, stops, events
    ELSE SegmentData(ann.types, Synced(f).value, ann.starts, ann.stops, ann.events, pre)

\* lines 134-139: the file a subject is saved to
SubjectFile(f, name) ==
    IF f.save_loc.type = "none" \/ (f.save_loc.type = "str" /\ f.save_loc.val = "import")
    THEN f.save_path.val \o sep \o name \o sep \o "data_subj_" \o name \o ".pickle"
    ELSE f.save_path.val \o sep \o "data_subj_" \o name \o ".pickle"

\* lines 99-142 for the next subject folder
LoadSubject ==
    /\ pc = "subjects"
    /\ ld.done < Len(ld.subjs)
    /\ LET folder == ld.subjs[ld.done + 1]
           ann == AnnAfter(ld, folder)
           res == SubjectData(ld, ann, pre_time)
           segcalls == IF ld.segment /\ ann.bound /\ Synced(ld).kind = "return"
                       THEN Append(ld.calls, [sub |-> ld.done + 1, events |-> ann.events,
                                              starts |-> ann.starts, stops |-> ann.stops])
                       ELSE ld.calls
       IN IF res.kind = "raise"
          THEN /\ ld' = [ld EXCEPT !.ann = ann, !.calls = segcalls]
               /\ outcome' = res
               /\ pc' = "done"
          ELSE IF ld.save_subj /\ ~ld.save_path.bound
          THEN /\ ld' = [ld EXCEPT !.ann = ann, !.calls = segcalls,
                                   !.data = Put(@, folder.name, res.value)]
               /\ outcome' = Raise("UnboundLocalError")     \* save_path, line 138
               /\ pc' = "done"
          ELSE /\ ld' = [ld EXCEPT !.ann = ann, !.calls = segcalls,
                                   !.data = Put(@, folder.name, res.value),
                                   !.done = @ + 1,
                                   !.files = IF ld.save_subj
                                             THEN @ \cup {SubjectFile(ld, folder.name)}
                                             ELSE @,
                                   !.save_paths = IF ld.save_subj
                                                  THEN Append(@, SubjectFile(ld, folder.name))
                                                  ELSE @]
               /\ UNCHANGED <<pc, outcome>>
    /\ UNCHANGED <<raw, events, start, stop, types, pre_time, data, todo, nread,
                   split_data, ret_data>>

\* what load_mc10 returns, lines 150-155
Returned(f, paths) ==
    IF f.return_data /\ f.save THEN [save_paths |-> paths, data |-> f.data, what |-> "paths, data"]
    ELSE IF f.save THEN [save_paths |-> paths, data |-> EmptyDict, what |-> "paths"]
    ELSE [save_paths |-> <<>>, data |-> f.data, what |-> "data"]

\* lines 144-155
LoadFinish ==
    /\ pc = "subjects"
    /\ ld.done = Len(ld.subjs)
    /\ IF ~ld.save_subj
       THEN IF ~ld.save_path.bound
            THEN /\ outcome' = Raise("UnboundLocalError")   \* save_path, line 145
                 /\ UNCHANGED ld
            ELSE /\ ld' = [ld EXCEPT !.files = @ \cup {ld.save_path.val \o sep \o "data.pickle"},
                                     !.save_paths = <<ld.save_path.val \o sep \o "data.pickle">>]
                 /\ outcome' = Return(Returned(ld, <<ld.save_path.val \o sep \o "data.pickle">>))
       ELSE /\ outcome' = Return(Returned(ld, ld.save_paths))
            /\ UNCHANGED ld
    /\ pc' = "done"
    /\ UNCHANGED <<raw, events, start, stop, types, pre_time, data, todo, nread,
                   split_data, ret_data>>

LoadNext == LoadSetup \/ LoadSubject \/ LoadFinish

SpecLoad == LoadInit /\ [][LoadNext]_vars

\* C9: a call with save=False ends by returning the imported data of every
\* subject and writes no file.
C9_NoSaveReturnsData ==
    (pc = "done" /\ ~ld.save) =>
        /\ outcome.kind = "return"
        /\ outcome.value.what = "data"
        /\ DOMAIN outcome.value.data = {ld.subjs[j].name : j \in 1..Len(ld.subjs)}
        /\ ld.files = {}

\* C10: every call of _segment_data made for a subject is handed the events,
\* starts and stops of that subject's own annotations.csv.
C10_OwnAnnotations ==
    \A c \in 1..Len(ld.calls) :
        LET call == ld.calls[c]
            log == ld.subjs[call.sub].log
        IN  /\ log.present
            /\ call.events = Dedup(Loadtxt(log.events))
            /\ call.starts = log.starts
            /\ call.stops = log.stops

=============================================================================
